---------------------------- MODULE Spec2Model ----------------------------
(***************************************************************************)
(* A model of the enum conversion utilities enum_cast (enum_cast.cpp) and  *)
(* enum_flag_bits_cast (enum_flag_bits_cast.cpp).                          *)
(*                                                                         *)
(* An enumerated type is named by a string ("lib_a::Color"), a value of    *)
(* it by its underlying integer.  A mapping table is a sequence of tuples, *)
(* one slot per member type of the category, in the order of the           *)
(* category's mapping_type; std::get<T> selects the slot of type T.        *)
(***************************************************************************)
EXTENDS Integers, Sequences, FiniteSets

VARIABLES
    mappings,   \* tag -> mapping table of the translation unit being run
    call,       \* the latest invocation of a converter and its outcome
    prev        \* the invocation before it, when the caller kept its result

vars == <<mappings, call, prev>>

(***************************************************************************)
(* Bounds of the model.                                                    *)
(***************************************************************************)
\* Longest client-declared mapping table that is enumerated.
MaxLen == 2
\* Largest enumerant value of the client-declared enums that is enumerated.
MaxVal == 2
\* Bits of std::underlying_type_t<Dst> that an indeterminate value may have
\* set (the type has 32; the enumerants of the source use the low 5).
UnderlyingBits == 5

(***************************************************************************)
(* The enumerated types of the two source files.                           *)
(***************************************************************************)
lib_a_Color == [Red |-> 3, Green |-> 4, Blue |-> 5]
lib_a_Shape == [Circle |-> 1, Square |-> 9, Triangle |-> 16]
lib_b_Color == [Red |-> 0, Green |-> 1, Blue |-> 2, Yellow |-> 3]
lib_b_Shape == [Circle |-> 0, Square |-> 1, Triangle |-> 2]
lib_c_Color == [Red |-> 9, Green |-> 100, Blue |-> 101]
lib_c_Shape == [Circle |-> 2, Square |-> 3, Triangle |-> 4]

lib_a_Permission ==
    [None |-> 0, Read |-> 1, Write |-> 2, Execute |-> 4, ReadWrite |-> 3,
     ReadExecute |-> 5, WriteExecute |-> 6, All |-> 7]
lib_b_Permission == [NONE |-> 0, READ |-> 4, WRITE |-> 8, EXECUTE |-> 16]

\* The values of a record of enumerants.
Values(enum) == {enum[n] : n \in DOMAIN enum}

\* The enum class types (enum_cast.cpp) and the client-declared ones.
ScopedEnums ==
    {"lib_a::Color", "lib_b::Color", "lib_c::Color",
     "lib_a::Shape", "lib_b::Shape", "lib_c::Shape", "EnumA", "EnumB"}

\* The unscoped types (enum_flag_bits_cast.cpp): built-in & applies to them.
UnscopedEnums == {"lib_a::Permission", "lib_b::Permission"}

EnumConcept == ScopedEnums \cup UnscopedEnums

\* The declared enumerant values of a type.
Enumerants(Enum) ==
    CASE Enum = "lib_a::Color" -> Values(lib_a_Color)
      [] Enum = "lib_b::Color" -> Values(lib_b_Color)
      [] Enum = "lib_c::Color" -> Values(lib_c_Color)
      [] Enum = "lib_a::Shape" -> Values(lib_a_Shape)
      [] Enum = "lib_b::Shape" -> Values(lib_b_Shape)
      [] Enum = "lib_c::Shape" -> Values(lib_c_Shape)
      [] Enum = "lib_a::Permission" -> Values(lib_a_Permission)
      [] Enum = "lib_b::Permission" -> Values(lib_b_Permission)
      [] OTHER -> 0 .. MaxVal

(***************************************************************************)
(* Category registry and mapping registry.                                 *)
(***************************************************************************)
\* enum_category<Enum>::type, one specialization per type.
enum_category_t(Enum) ==
    CASE Enum \in {"lib_a::Color", "lib_b::Color", "lib_c::Color"} -> "EnumColorTag"
      [] Enum \in {"lib_a::Shape", "lib_b::Shape", "lib_c::Shape"} -> "EnumShapeTag"
      [] Enum \in {"lib_a::Permission", "lib_b::Permission"} -> "PermissionTag"
      [] OTHER -> "Tag"

\* enum_mapping_traits<Tag>::mapping_type: the slot order of a tuple.
mapping_type(Tag) ==
    CASE Tag = "EnumColorTag" -> <<"lib_a::Color", "lib_b::Color", "lib_c::Color">>
      [] Tag = "EnumShapeTag" -> <<"lib_a::Shape", "lib_b::Shape", "lib_c::Shape">>
      [] Tag = "PermissionTag" -> <<"lib_a::Permission", "lib_b::Permission">>
      [] OTHER -> <<"EnumA", "EnumB">>

\* enum_mapping_traits<EnumColorTag>::mappings
ColorMappings ==
    << <<lib_a_Color.Red, lib_b_Color.Red, lib_c_Color.Red>>,
       <<lib_a_Color.Green, lib_b_Color.Green, lib_c_Color.Green>>,
       <<lib_a_Color.Blue, lib_b_Color.Blue, lib_c_Color.Blue>> >>

\* enum_mapping_traits<EnumShapeTag>::mappings
ShapeMappings ==
    << <<lib_a_Shape.Circle, lib_b_Shape.Circle, lib_c_Shape.Circle>>,
       <<lib_a_Shape.Square, lib_b_Shape.Square, lib_c_Shape.Square>>,
       <<lib_a_Shape.Triangle, lib_b_Shape.Triangle, lib_c_Shape.Triangle>> >>

\* enum_mapping_traits<PermissionTag>::mappings
PermissionMappings ==
    << <<lib_a_Permission.None, lib_b_Permission.NONE>>,
       <<lib_a_Permission.Read, lib_b_Permission.READ>>,
       <<lib_a_Permission.Write, lib_b_Permission.WRITE>>,
       <<lib_a_Permission.Execute, lib_b_Permission.EXECUTE>> >>

\* The tables of the two source files, as one application includes them.
LibraryMappings ==
    [Tag \in {"EnumColorTag", "EnumShapeTag", "PermissionTag"} |->
        CASE Tag = "EnumColorTag" -> ColorMappings
          [] Tag = "EnumShapeTag" -> ShapeMappings
          [] OTHER -> PermissionMappings]

\* Sequences of length at most n over S.
RECURSIVE SeqsUpTo(_, _)
SeqsUpTo(S, n) ==
    IF n = 0 THEN {<<>>}
    ELSE LET shorter == SeqsUpTo(S, n - 1)
         IN  shorter \cup {Append(s, x) : s \in {t \in shorter : Len(t) = n - 1}, x \in S}

\* The tables a client may declare for its own category Tag of two enums:
\* any entries in any order, duplicates included.
ClientMappings ==
    {[Tag \in {"Tag"} |-> t] : t \in SeqsUpTo((0 .. MaxVal) \X (0 .. MaxVal), MaxLen)}

\* The types whose category has a table in the translation unit.
Declared(m) == {Enum \in EnumConcept : enum_category_t(Enum) \in DOMAIN m}


(***************************************************************************)
(* Build-time checks of an instantiation convert<Dst, Src>.                *)
(***************************************************************************)
SameCategoryMessage == "Source and destination enums must be of the same category"

\* The condition of the static_assert of both converters.
SameCategory(Dst, Src) == enum_category_t(Src) = enum_category_t(Dst)

\* std::get<T>(mapping) is well-formed when T is a slot of the tuple.
HasSlot(T, Tag) == \E i \in 1 .. Len(mapping_type(Tag)) : mapping_type(Tag)[i] = T

\* The index std::get<T> selects in a tuple of the category.
SlotOf(T, Tag) == CHOOSE i \in 1 .. Len(mapping_type(Tag)) : mapping_type(Tag)[i] = T

\* A build without the static_assert: only std::get rejects a foreign type.
BuildNoStaticAssert(Dst, Src) ==
    IF ~(HasSlot(Src, enum_category_t(Src)) /\ HasSlot(Dst, enum_category_t(Src)))
    THEN "no matching std::get"
    ELSE "ok"

\* What the compiler says of the instantiation: the static_assert comes
\* first, then the two std::get calls on a tuple of Src's category.
Build(Dst, Src) ==
    IF ~SameCategory(Dst, Src) THEN SameCategoryMessage
    ELSE IF ~(HasSlot(Src, enum_category_t(Src)) /\ HasSlot(Dst, enum_category_t(Src)))
         THEN "no matching std::get"
         ELSE "ok"

(***************************************************************************)
(* enum_cast: the scalar converter.                                        *)
(***************************************************************************)
\* A scan that keeps going after a match, so that the last match wins.
RECURSIVE EnumCastLoopLast(_, _, _, _, _)
EnumCastLoopLast(table, s, d, src, i) ==
    IF i > Len(table) THEN 0
    ELSE IF table[i][s] = src /\ ~\E j \in (i + 1) .. Len(table) : table[j][s] = src
         THEN table[i][d]
         ELSE EnumCastLoopLast(table, s, d, src, i + 1)

\* A fallback that returns "the first enum value" of the table, not 0.
RECURSIVE EnumCastLoopFirstOnMiss(_, _, _, _, _)
EnumCastLoopFirstOnMiss(table, s, d, src, i) ==
    IF i > Len(table) THEN (IF Len(table) > 0 THEN table[1][d] ELSE 0)
    ELSE IF table[i][s] = src THEN table[i][d]
         ELSE EnumCastLoopFirstOnMiss(table, s, d, src, i + 1)

\* A fallback that casts the source value itself, static_cast<Dst>(src).
RECURSIVE EnumCastLoopSrcOnMiss(_, _, _, _, _)
EnumCastLoopSrcOnMiss(table, s, d, src, i) ==
    IF i > Len(table) THEN src
    ELSE IF table[i][s] = src THEN table[i][d]
         ELSE EnumCastLoopSrcOnMiss(table, s, d, src, i + 1)

\* The range-for of enum_cast from entry i on, and the fallback after it.
RECURSIVE EnumCastLoop(_, _, _, _, _)
EnumCastLoop(table, s, d, src, i) ==
    IF i > Len(table) THEN 0
    ELSE IF table[i][s] = src THEN table[i][d]
         ELSE EnumCastLoop(table, s, d, src, i + 1)

\* A scan that skips the first entry of the table.
enum_cast_skip_first(m, Dst, Src, src) ==
    LET Category == enum_category_t(Src)
    IN  EnumCastLoop(m[Category], SlotOf(Src, Category), SlotOf(Dst, Category), src, 2)

\* enum_cast<Dst>(src) with src of type Src, over the tables m.
enum_cast(m, Dst, Src, src) ==
    LET Category == enum_category_t(Src)
    IN  EnumCastLoop(m[Category], SlotOf(Src, Category), SlotOf(Dst, Category), src, 1)

(***************************************************************************)
(* enum_flag_bits_cast: the flag-bits converter.                           *)
(***************************************************************************)
\* a & b on non-negative underlying values.
RECURSIVE BitAnd(_, _)
BitAnd(a, b) ==
    IF a = 0 \/ b = 0 THEN 0
    ELSE (a % 2) * (b % 2) + 2 * BitAnd(a \div 2, b \div 2)

\* a | b on non-negative underlying values.
RECURSIVE BitOr(_, _)
BitOr(a, b) ==
    IF a = 0 THEN b
    ELSE IF b = 0 THEN a
         ELSE (IF a % 2 = 1 \/ b % 2 = 1 THEN 1 ELSE 0) + 2 * BitOr(a \div 2, b \div 2)

\* The range-for of enum_flag_bits_cast from entry i on, dst the accumulator.
RECURSIVE FlagBitsLoop(_, _, _, _, _, _)
FlagBitsLoop(table, s, d, src, dst, i) ==
    IF i > Len(table) THEN dst
    ELSE FlagBitsLoop(table, s, d, src,
                      IF BitAnd(table[i][s], src) # 0 THEN BitOr(dst, table[i][d]) ELSE dst,
                      i + 1)

\* enum_flag_bits_cast<Dst>(src) with src of type Src.  The accumulator
\* "UnderlyingType dst;" is declared without an initializer, so the value
\* the loop starts from is indeterminate: the caller of this operator
\* supplies whichever value the storage happens to hold.
enum_flag_bits_cast(m, Dst, Src, src, indeterminate) ==
    LET Category == enum_category_t(Src)
    IN  FlagBitsLoop(m[Category], SlotOf(Src, Category), SlotOf(Dst, Category),
                     src, indeterminate, 1)

\* The values an uninitialized UnderlyingType object may hold.
UnderlyingValues == 0 .. (2 ^ UnderlyingBits - 1)

(***************************************************************************)
(* Inputs of the converters.                                               *)
(***************************************************************************)
\* The largest element of a non-empty set of integers.
Max(S) == CHOOSE x \in S : \A y \in S : y <= x

\* The least 2^k - 1 that is at least n.
RECURSIVE Mask(_, _)
Mask(n, m) == IF m >= n THEN m ELSE Mask(n, 2 * m + 1)

\* The values an unscoped enum without a fixed underlying type can hold:
\* those of the smallest bit-field that holds all its enumerants.
EnumRange(Enum) == 0 .. Mask(Max(Enumerants(Enum)), 0)

\* Source values handed to enum_cast: the declared enumerants, and raw
\* integers cast into the (int-backed) enum class.
CastInputs(Src) == Enumerants(Src) \cup {0, 42}

(***************************************************************************)
(* The state machine: a caller invoking the converters.                    *)
(***************************************************************************)
NoValue == -1

NoCall ==
    [fn |-> "none", Dst |-> "none", Src |-> "none", src |-> NoValue,
     build |-> "none", result |-> NoValue]

\* The record of enum_cast<Dst>(src): rejected by the build, or a value.
EnumCastCall(m, Dst, Src, src) ==
    [fn |-> "enum_cast", Dst |-> Dst, Src |-> Src, src |-> src,
     build |-> Build(Dst, Src),
     result |-> IF Build(Dst, Src) = "ok" THEN enum_cast(m, Dst, Src, src) ELSE NoValue]

\* The record of enum_flag_bits_cast<Dst>(src).
EnumFlagBitsCastCall(m, Dst, Src, src, indeterminate) ==
    [fn |-> "enum_flag_bits_cast", Dst |-> Dst, Src |-> Src, src |-> src,
     build |-> Build(Dst, Src),
     result |-> IF Build(Dst, Src) = "ok"
                THEN enum_flag_bits_cast(m, Dst, Src, src, indeterminate)
                ELSE NoValue]

Init ==
    /\ mappings \in {LibraryMappings} \cup ClientMappings
    /\ call = NoCall
    /\ prev = NoCall

\* The caller writes enum_cast<Dst>(src).
CallEnumCast ==
    /\ call = NoCall
    /\ \E Src \in ScopedEnums \cap Declared(mappings), Dst \in Declared(mappings) :
         \E src \in CastInputs(Src) :
            call' = EnumCastCall(mappings, Dst, Src, src)
    /\ UNCHANGED <<mappings, prev>>

\* The caller writes enum_flag_bits_cast<Dst>(src).
CallEnumFlagBitsCast ==
    /\ call = NoCall
    /\ \E Src \in UnscopedEnums \cap Declared(mappings), Dst \in Declared(mappings) :
         \E src \in EnumRange(Src), indeterminate \in UnderlyingValues :
            call' = EnumFlagBitsCastCall(mappings, Dst, Src, src, indeterminate)
    /\ UNCHANGED <<mappings, prev>>

\* The caller converts the result of an enum_cast back to the source type,
\* as main does with a_color.
CastBack ==
    /\ call.fn = "enum_cast" /\ call.build = "ok" /\ prev = NoCall
    /\ call' = EnumCastCall(mappings, call.Src, call.Dst, call.result)
    /\ prev' = call
    /\ UNCHANGED mappings

\* The caller invokes enum_cast a second time with the same argument.
RepeatEnumCast ==
    /\ call.fn = "enum_cast" /\ call.build = "ok" /\ prev = NoCall
    /\ call' = EnumCastCall(mappings, call.Dst, call.Src, call.src)
    /\ prev' = call
    /\ UNCHANGED mappings

\* The caller invokes enum_flag_bits_cast a second time with the same
\* argument; the accumulator is a fresh object of the new invocation.
RepeatEnumFlagBitsCast ==
    /\ call.fn = "enum_flag_bits_cast" /\ call.build = "ok" /\ prev = NoCall
    /\ \E indeterminate \in UnderlyingValues :
         call' = EnumFlagBitsCastCall(mappings, call.Dst, call.Src, call.src, indeterminate)
    /\ prev' = call
    /\ UNCHANGED mappings

\* The caller is done with the results.
Return ==
    /\ call # NoCall
    /\ call' = NoCall
    /\ prev' = NoCall
    /\ UNCHANGED mappings

Next ==
    \/ CallEnumCast
    \/ CallEnumFlagBitsCast
    \/ CastBack
    \/ RepeatEnumCast
    \/ RepeatEnumFlagBitsCast
    \/ Return

Spec == Init /\ [][Next]_vars


(***************************************************************************)
(* What the claims speak of.                                               *)
(***************************************************************************)
\* c is an invocation of fn that was built and returned a value.
Ran(c, fn) == c.fn = fn /\ c.build = "ok"

\* The table, source slot and destination slot an invocation works on.
TableOf(c) == mappings[enum_category_t(c.Src)]
SrcSlot(c) == SlotOf(c.Src, enum_category_t(c.Src))
DstSlot(c) == SlotOf(c.Dst, enum_category_t(c.Src))

\* The entries whose Src slot equals the source value.
Matches(c) == {i \in 1 .. Len(TableOf(c)) : TableOf(c)[i][SrcSlot(c)] = c.src}

\* The entries whose Src slot shares a bit with the value v.
Fired(c, v) == {i \in 1 .. Len(TableOf(c)) : BitAnd(TableOf(c)[i][SrcSlot(c)], v) # 0}

\* The least element of a non-empty set of integers.
Min(S) == CHOOSE x \in S : \A y \in S : x <= y

\* The bitwise OR of the Dst slots of a set of entries; 0 for no entry.
RECURSIVE OrOfDst(_, _)
OrOfDst(c, I) ==
    IF I = {} THEN 0
    ELSE LET i == Min(I) IN BitOr(TableOf(c)[i][DstSlot(c)], OrOfDst(c, I \ {i}))

\* Every result enum_flag_bits_cast<c.Dst> can return for the value v.
FlagResults(c, v) ==
    {enum_flag_bits_cast(mappings, c.Dst, c.Src, v, g) : g \in UnderlyingValues}

(***************************************************************************)
(* C1.  enum_cast<Dst>(v) returns the Dst slot of the FIRST entry, in      *)
(* declared order, whose Src slot equals v; with the Color table,          *)
(* enum_cast<lib_a::Color>(lib_c::Color::Red) is lib_a::Color::Red and      *)
(* enum_cast<lib_b::Color>(lib_a::Color::Red) is lib_b::Color::Red.         *)
(***************************************************************************)
C1_FirstMatch ==
    /\ (Ran(call, "enum_cast") /\ Matches(call) # {})
          => call.result = TableOf(call)[Min(Matches(call))][DstSlot(call)]
    /\ (Ran(call, "enum_cast") /\ call.Src = "lib_c::Color" /\ call.Dst = "lib_a::Color"
            /\ call.src = lib_c_Color.Red)
          => call.result = lib_a_Color.Red
    /\ (Ran(call, "enum_cast") /\ call.Src = "lib_a::Color" /\ call.Dst = "lib_b::Color"
            /\ call.src = lib_a_Color.Red)
          => call.result = lib_b_Color.Red

\* An enum_cast whose value matches two entries with different Dst slots.
C1_Witness ==
    /\ Ran(call, "enum_cast")
    /\ \E i, j \in Matches(call) :
          i < j /\ TableOf(call)[i][DstSlot(call)] # TableOf(call)[j][DstSlot(call)]
    /\ call.result = TableOf(call)[Min(Matches(call))][DstSlot(call)]

(***************************************************************************)
(* C2.  For a source value that is the Src slot of no entry, enum_cast     *)
(* returns the Dst value whose underlying integer is 0, as a value: the    *)
(* call signals nothing.                                                   *)
(***************************************************************************)
C2_MissReturnsZero ==
    (Ran(call, "enum_cast") /\ Matches(call) = {}) => call.result = 0

\* The raw cast of 42 into lib_a::Color, converted to lib_c::Color.
C2_Witness ==
    /\ Ran(call, "enum_cast") /\ Matches(call) = {}
    /\ call.Src = "lib_a::Color" /\ call.Dst = "lib_c::Color" /\ call.src = 42
    /\ call.result = 0

(***************************************************************************)
(* C3.  enum_flag_bits_cast<Dst>(v) is exactly the bitwise OR, from an     *)
(* accumulator that is 0, of the Dst slots of the entries whose Src slot   *)
(* has a non-zero AND with v; enum_flag_bits_cast<lib_a::Permission>(      *)
(* lib_b::READ | lib_b::WRITE) has the bit pattern of lib_a::ReadWrite.    *)
(***************************************************************************)
C3_OrFromZero ==
    /\ Ran(call, "enum_flag_bits_cast")
          => call.result = OrOfDst(call, Fired(call, call.src))
    /\ (Ran(call, "enum_flag_bits_cast") /\ call.Src = "lib_b::Permission"
            /\ call.Dst = "lib_a::Permission"
            /\ call.src = BitOr(lib_b_Permission.READ, lib_b_Permission.WRITE))
          => call.result = lib_a_Permission.ReadWrite

(***************************************************************************)
(* C4.  Round trip: for v in the A slot of some entry,                     *)
(* enum_cast<A>(enum_cast<B>(v)) = v whenever no other entry shares v's    *)
(* A-slot value or its B-slot image.                                       *)
(***************************************************************************)
\* call converts back the result of prev.
RoundTrip ==
    /\ Ran(prev, "enum_cast") /\ Ran(call, "enum_cast")
    /\ call.Src = prev.Dst /\ call.Dst = prev.Src /\ call.src = prev.result

\* The table restricted to the slots of prev is a bijection on prev.src.
BijectiveOn(c) ==
    \E i \in Matches(c) :
       /\ Matches(c) = {i}
       /\ \A j \in 1 .. Len(TableOf(c)) :
             TableOf(c)[j][DstSlot(c)] = TableOf(c)[i][DstSlot(c)] => j = i

C4_RoundTrip ==
    (RoundTrip /\ BijectiveOn(prev)) => call.result = prev.src

\* A round trip between two different types, in a table that is a bijection
\* on the value but has another entry.
C4_Witness ==
    /\ RoundTrip /\ BijectiveOn(prev)
    /\ prev.Src # prev.Dst /\ prev.src # prev.result
    /\ Len(TableOf(prev)) > 1
    /\ call.result = prev.src

(***************************************************************************)
(* C5.  Flag union: for two source bits, each the Src slot of its own      *)
(* entry and sharing no bit, enum_flag_bits_cast<Dst>(bitA | bitB) =       *)
(* enum_flag_bits_cast<Dst>(bitA) | enum_flag_bits_cast<Dst>(bitB).        *)
(***************************************************************************)
C5_FlagUnion ==
    Ran(call, "enum_flag_bits_cast") =>
       \A i, j \in 1 .. Len(TableOf(call)) :
          LET bitA == TableOf(call)[i][SrcSlot(call)]
              bitB == TableOf(call)[j][SrcSlot(call)]
          IN  (bitA # 0 /\ bitB # 0 /\ BitAnd(bitA, bitB) = 0 /\ call.src = BitOr(bitA, bitB))
                 => \A ra \in FlagResults(call, bitA), rb \in FlagResults(call, bitB) :
                       call.result = BitOr(ra, rb)

(***************************************************************************)
(* C6.  Flag drop: source bits that overlap the Src slot of no entry       *)
(* contribute nothing, enum_flag_bits_cast<Dst>(v | u) =                   *)
(* enum_flag_bits_cast<Dst>(v), and every bit of a result is a bit of the  *)
(* Dst slot of some entry whose Src slot overlaps the input.               *)
(***************************************************************************)
C6_FlagDrop ==
    Ran(call, "enum_flag_bits_cast") =>
       /\ \A v, u \in EnumRange(call.Src) :
             (call.src = BitOr(v, u) /\ Fired(call, u) = {})
                => \A r \in FlagResults(call, v) : call.result = r
       /\ BitOr(call.result, OrOfDst(call, Fired(call, call.src)))
             = OrOfDst(call, Fired(call, call.src))

(***************************************************************************)
(* C7.  Category consistency: a conversion between types whose category    *)
(* tags differ is rejected at build time, by the static_assert and its     *)
(* message, and yields no runtime value; every conversion that executes    *)
(* has category_of(Src) = category_of(Dst).                                *)
(***************************************************************************)
C7_CategoryConsistency ==
    call # NoCall =>
       /\ enum_category_t(call.Src) # enum_category_t(call.Dst)
             => (call.build = SameCategoryMessage /\ call.result = NoValue)
       /\ call.build = "ok" => enum_category_t(call.Src) = enum_category_t(call.Dst)
       /\ call.result # NoValue => call.build = "ok"

\* enum_flag_bits_cast from a Permission to a Color, rejected by the build.
C7_Witness ==
    /\ call.fn = "enum_flag_bits_cast"
    /\ call.Src = "lib_a::Permission" /\ call.Dst = "lib_b::Color"
    /\ call.build = SameCategoryMessage /\ call.result = NoValue

(***************************************************************************)
(* C8.  Both converters are deterministic functions of their input and    *)
(* the table: two invocations of the same converter with the same source   *)
(* value return the same result, and no invocation changes a table.        *)
(***************************************************************************)
SameInvocation ==
    /\ prev # NoCall /\ call.fn = prev.fn
    /\ call.Dst = prev.Dst /\ call.Src = prev.Src /\ call.src = prev.src

C8_Deterministic ==
    /\ [](SameInvocation => call.result = prev.result)
    /\ [][mappings' = mappings]_vars

(***************************************************************************)
(* C9.  When Dst declares no enumerant of value 0, a miss of enum_cast     *)
(* still returns raw 0 cast to Dst, a value outside Dst's declared         *)
(* enumerants.                                                             *)
(***************************************************************************)
C9_MissOutsideEnumerants ==
    (Ran(call, "enum_cast") /\ Matches(call) = {} /\ 0 \notin Enumerants(call.Dst))
       => (call.result = 0 /\ call.result \notin Enumerants(call.Dst))

\* lib_b::Color::Yellow, in no entry, converted to lib_a::Color = {3, 4, 5}.
C9_Witness ==
    /\ Ran(call, "enum_cast") /\ Matches(call) = {}
    /\ call.Src = "lib_b::Color" /\ call.Dst = "lib_a::Color"
    /\ call.src = lib_b_Color.Yellow
    /\ call.result \notin Enumerants("lib_a::Color")

(***************************************************************************)
(* C10.  An entry whose Src slot is 0 never fires; converting the zero     *)
(* source value fires no entry and the result, the accumulator's initial   *)
(* value, is the zero value of Dst:                                        *)
(* enum_flag_bits_cast<lib_b::Permission>(lib_a::None) = lib_b::NONE.      *)
(***************************************************************************)
C10_ZeroToZero ==
    Ran(call, "enum_flag_bits_cast") =>
       /\ \A i \in Fired(call, call.src) : TableOf(call)[i][SrcSlot(call)] # 0
       /\ call.src = 0 => (Fired(call, call.src) = {} /\ call.result = 0)

=============================================================================
